---- MODULE Spec2Model ----
(***************************************************************************)
(* Model of qml_formatter_hook/main.py: the pre-commit hook that locates   *)
(* the QML formatter (find_qmlformat), runs it once per file on a thread   *)
(* pool (format_single_file, format_qml_files) and reduces the per-file    *)
(* results to one exit status (main).                                      *)
(*                                                                         *)
(* Text that the code inspects character by character (the output of the   *)
(* which/where lookup, and the paths cut out of it) is a sequence of       *)
(* one-character tokens, "NL" and "SP" standing for newline and space.     *)
(* An Optional value is a sequence of length at most one: << >> is None.   *)
(***************************************************************************)
EXTENDS Integers, Sequences, FiniteSets, TLC

VARIABLES
    entry,           \* the function the run enters: main, format_qml_files, ...
    args,            \* the parsed arguments / the parameters of the entered function
    exists,          \* the filenames that exist on disk
    platform,        \* sys.platform
    which_env,       \* what the which/where lookup of each candidate does in this environment
    pc,              \* position of the calling thread
    i,               \* find_qmlformat: index of the candidate the loop is at
    result,          \* find_qmlformat: the outcome of the latest lookup
    spawned,         \* find_qmlformat: the lookup commands spawned so far
    find_ret,        \* find_qmlformat: its return value (Optional[str])
    qmlformat_path,  \* main: the resolved formatter path (Optional[str])
    files,           \* the list handed to format_qml_files
    futures,         \* the pool's futures, in submission order
    consumed,        \* indices of the futures as_completed has yielded
    rv,              \* the value format_qml_files decided to return (Optional[int])
    late,            \* indices of the futures not yet finished when that return was executed
    ret,             \* the value returned to the caller (Optional[int])
    exc              \* the exception that escaped to the caller ("" for none)

vars == <<entry, args, exists, platform, which_env, pc, i, result, spawned,
          find_ret, qmlformat_path, files, futures, consumed, rv, late, ret, exc>>

findVars == <<i, result, spawned, find_ret>>
poolVars == <<futures, consumed, rv, late>>
inputVars == <<entry, args, exists, platform, which_env>>

----------------------------------------------------------------------------
(* Bounds and input domains *)

MaxFiles == 2

Names == {"a.qml", "b.qml"}

TabSizes == {2, 4}

MaxWorkerValues == {0, 1, 2}

RECURSIVE SeqsUpTo(_, _)
SeqsUpTo(S, n) ==
    IF n = 0 THEN {<< >>}
    ELSE LET shorter == SeqsUpTo(S, n - 1)
         IN  shorter \cup {Append(s, x) : s \in shorter, x \in S}

SomePath == <<"/", "a">>

----------------------------------------------------------------------------
(* find_qmlformat *)

possible_names == <<"pyside6-qmlformat", "pyside6-qmlformat.exe", "qmlformat", "qmlformat.exe">>

Whitespace == {"SP", "NL"}

RECURSIVE LStrip(_)
LStrip(s) == IF s # << >> /\ Head(s) \in Whitespace THEN LStrip(Tail(s)) ELSE s

RECURSIVE RStrip(_)
RStrip(s) ==
    IF s # << >> /\ s[Len(s)] \in Whitespace THEN RStrip(SubSeq(s, 1, Len(s) - 1)) ELSE s

\* str.strip()
Strip(s) == RStrip(LStrip(s))

\* str.split("\n")[0]
RECURSIVE Split0(_)
Split0(s) ==
    IF s = << >> \/ Head(s) = "NL" THEN << >> ELSE <<Head(s)>> \o Split0(Tail(s))

\* The outcomes of subprocess.run([which, name], capture_output=True, text=True,
\* check=True): exit status 0 with the captured stdout, CalledProcessError on a
\* nonzero exit status, FileNotFoundError when the lookup utility itself is missing.
\* The utility prints nothing, or the matching paths one per line.
WhichOutputs ==
    { << >>, <<"NL">>,
      <<"/", "a", "NL">>, <<"/", "b", "NL">>,
      <<"/", "a", "NL", "/", "b", "NL">> }

LookupOutcomes ==
    [kind : {"ok"}, stdout : WhichOutputs]
        \cup [kind : {"CalledProcessError", "FileNotFoundError"}, stdout : {<< >>}]

NoLookup == [kind |-> "none", stdout |-> << >>]

LookupTool == IF platform = "win32" THEN "where" ELSE "which"

\* Variant of line 19 that tests the exit status alone, without looking at stdout.
LookupFound_mut(r) == r.kind = "ok"

\* line 19: if result.stdout.strip()
LookupFound(r) == r.kind = "ok" /\ Strip(r.stdout) # << >>

\* line 20: result.stdout.strip().split("\n")[0]
LookupValue(r) == Split0(Strip(r.stdout))

\* One iteration of the loop of find_qmlformat: spawn the lookup of candidate i and
\* return its first line, or go on to the next candidate.
FindLookup ==
    /\ pc = "find"
    /\ i <= Len(possible_names)
    /\ LET r == which_env[i]
       IN  /\ result' = r
           /\ spawned' = Append(spawned, <<LookupTool, possible_names[i]>>)
           /\ IF LookupFound(r)
              THEN /\ find_ret' = <<LookupValue(r)>>
                   /\ pc' = "find_return"
                   /\ i' = i
              ELSE /\ i' = i + 1
                   /\ UNCHANGED <<find_ret, pc>>
    /\ UNCHANGED <<inputVars, qmlformat_path, files, poolVars, ret, exc>>

\* line 24: return None
FindNone ==
    /\ pc = "find"
    /\ i > Len(possible_names)
    /\ find_ret' = << >>
    /\ pc' = "find_return"
    /\ UNCHANGED <<inputVars, i, result, spawned, qmlformat_path, files, poolVars, ret, exc>>

----------------------------------------------------------------------------
(* format_single_file *)

DefaultTabSize == 4

Str(n) == IF n = 2 THEN "2" ELSE IF n = 4 THEN "4" ELSE "n"

NoCmd == [exe |-> << >>, opts |-> << >>, file |-> ""]

\* Variant of lines 39-42 with "if inplace" in place of "elif inplace".
BuildCmd_mut(file_path, qpath, use_spaces, check_only, inplace, tab_size) ==
    [exe  |-> qpath,
     opts |-> (IF use_spaces THEN <<"--use-spaces">> ELSE << >>)
              \o (IF check_only THEN <<"--check">> ELSE << >>)
              \o (IF inplace THEN <<"--inplace">> ELSE << >>)
              \o (IF tab_size # DefaultTabSize THEN <<"--tab-size", Str(tab_size)>> ELSE << >>),
     file |-> file_path]

\* lines 36-45: the command line; opts are the arguments between the executable
\* and the file path
BuildCmd(file_path, qpath, use_spaces, check_only, inplace, tab_size) ==
    [exe  |-> qpath,
     opts |-> (IF use_spaces THEN <<"--use-spaces">> ELSE << >>)
              \o (IF check_only THEN <<"--check">>
                  ELSE IF inplace THEN <<"--inplace">> ELSE << >>)
              \o (IF tab_size # DefaultTabSize THEN <<"--tab-size", Str(tab_size)>> ELSE << >>),
     file |-> file_path]

HasOpt(cmd, o) == \E k \in 1..Len(cmd.opts) : cmd.opts[k] = o

StderrTexts == {"", "syntax error", "needs formatting"}

NoProc == [kind |-> "none", returncode |-> 0, stderr |-> "", rewrote |-> FALSE]

\* What running the formatter can do: exit with a status and some stderr text, or
\* fail to start (OSError).  The formatter writes the file only when told --inplace.
ProcOutcomes(cmd) ==
    [kind : {"exit"}, returncode : 0..2, stderr : StderrTexts,
     rewrote : IF HasOpt(cmd, "--inplace") THEN BOOLEAN ELSE {FALSE}]
        \cup [kind : {"OSError"}, returncode : {0}, stderr : {""}, rewrote : {FALSE}]

\* The outcomes the pool runs draw from: one stderr text per exit status.
PoolProcOutcomes(cmd) ==
    {o \in ProcOutcomes(cmd) :
        /\ o.kind = "exit" => o.stderr = (IF o.returncode = 2 THEN "syntax error" ELSE "")
        /\ o.rewrote => o.returncode = 0}

\* str(e)
ExcText(o) ==
    IF o.kind = "OSError" THEN "[Errno 2] No such file or directory"
    ELSE IF o.returncode = 1 THEN "Command returned non-zero exit status 1."
    ELSE "Command returned non-zero exit status 2."

NoResult == [file |-> "", success |-> FALSE, error_msg |-> << >>]

\* Variant of line 50 that tests e.returncode == 1 without check_only.
FormatSingleFile_mut(file_path, check_only, o) ==
    IF o.kind = "exit" /\ o.returncode = 0
    THEN [file |-> file_path, success |-> TRUE, error_msg |-> << >>]
    ELSE IF o.kind = "exit"
    THEN IF o.returncode = 1
         THEN [file |-> file_path, success |-> FALSE, error_msg |-> <<"needs formatting">>]
         ELSE [file |-> file_path, success |-> FALSE,
               error_msg |-> <<IF o.stderr # "" THEN o.stderr ELSE ExcText(o)>>]
    ELSE [file |-> file_path, success |-> FALSE, error_msg |-> <<ExcText(o)>>]

\* lines 46-54: the result triple of one invocation whose process did o
FormatSingleFile(file_path, check_only, o) ==
    IF o.kind = "exit" /\ o.returncode = 0
    THEN [file |-> file_path, success |-> TRUE, error_msg |-> << >>]
    ELSE IF o.kind = "exit"
    THEN IF check_only /\ o.returncode = 1
         THEN [file |-> file_path, success |-> FALSE, error_msg |-> <<"needs formatting">>]
         ELSE [file |-> file_path, success |-> FALSE,
               error_msg |-> <<IF o.stderr # "" THEN o.stderr ELSE ExcText(o)>>]
    ELSE [file |-> file_path, success |-> FALSE, error_msg |-> <<ExcText(o)>>]

NewFuture(file_path) ==
    [file |-> file_path, state |-> "PENDING", cmd |-> NoCmd, proc |-> NoProc,
     result |-> NoResult, runs |-> 0]

\* A direct call of format_single_file: the whole function in one step.
FsfCall ==
    /\ pc = "fsf"
    /\ LET f   == args.filenames[1]
           cmd == BuildCmd(f, args.qmlformat_path[1], args.use_spaces, args.check,
                           args.inplace, args.tab_size)
       IN  \E o \in ProcOutcomes(cmd) :
               futures' = << [file |-> f, state |-> "FINISHED", cmd |-> cmd, proc |-> o,
                              result |-> FormatSingleFile(f, args.check, o),
                              runs |-> 1] >>
    /\ pc' = "done"
    /\ UNCHANGED <<inputVars, findVars, qmlformat_path, files, consumed, rv, late, ret, exc>>

----------------------------------------------------------------------------
(* format_qml_files *)

DefaultMaxWorkers == 5

\* ThreadPoolExecutor(max_workers=None) picks min(32, cpu_count + 4)
PoolSize == IF args.max_workers = << >> THEN DefaultMaxWorkers ELSE args.max_workers[1]

\* ThreadPoolExecutor.__init__: max_workers <= 0 is rejected with ValueError
ValidWorkers == IF args.max_workers = << >> THEN TRUE ELSE args.max_workers[1] > 0

Running == {k \in 1..Len(futures) : futures[k].state = "RUNNING"}

\* lines 67-68
FqfEmpty ==
    /\ pc = "fqf"
    /\ files = << >>
    /\ ret' = <<0>>
    /\ pc' = "done"
    /\ UNCHANGED <<inputVars, findVars, qmlformat_path, files, poolVars, exc>>

\* line 69: ThreadPoolExecutor raises ValueError when max_workers <= 0
FqfPoolError ==
    /\ pc = "fqf"
    /\ files # << >>
    /\ ~ValidWorkers
    /\ exc' = "ValueError"
    /\ pc' = "raised"
    /\ UNCHANGED <<inputVars, findVars, qmlformat_path, files, poolVars, ret>>

\* line 69
FqfPool ==
    /\ pc = "fqf"
    /\ files # << >>
    /\ ValidWorkers
    /\ pc' = "submit"
    /\ UNCHANGED <<inputVars, findVars, qmlformat_path, files, poolVars, ret, exc>>

\* lines 70-75: executor.submit for the next file of the list
Submit ==
    /\ pc = "submit"
    /\ Len(futures) < Len(files)
    /\ futures' = Append(futures, NewFuture(files[Len(futures) + 1]))
    /\ pc' = IF Len(futures) + 1 = Len(files) THEN "as_completed" ELSE "submit"
    /\ UNCHANGED <<inputVars, findVars, qmlformat_path, files, consumed, rv, late, ret, exc>>

\* A worker thread takes the oldest queued work item and starts the formatter
\* (lines 36-47).
WorkerStart(k) ==
    /\ k \in 1..Len(futures)
    /\ futures[k].state = "PENDING"
    /\ \A j \in 1..(k - 1) : futures[j].state # "PENDING"
    /\ Cardinality(Running) < PoolSize
    /\ futures' = [futures EXCEPT ![k].state = "RUNNING",
                                  ![k].runs = @ + 1,
                                  ![k].cmd = BuildCmd(futures[k].file, qmlformat_path[1],
                                                      args.use_spaces, args.check,
                                                      args.inplace, args.tab_size)]
    /\ UNCHANGED <<inputVars, findVars, qmlformat_path, files, consumed, rv, late, pc, ret, exc>>

\* The formatter process of work item k ends; the worker stores the result triple
\* (lines 47-54).
WorkerFinish(k) ==
    /\ k \in 1..Len(futures)
    /\ futures[k].state = "RUNNING"
    /\ \E o \in PoolProcOutcomes(futures[k].cmd) :
           futures' = [futures EXCEPT ![k].state = "FINISHED",
                                      ![k].proc = o,
                                      ![k].result = FormatSingleFile(futures[k].file,
                                                                     args.check, o)]
    /\ UNCHANGED <<inputVars, findVars, qmlformat_path, files, consumed, rv, late, pc, ret, exc>>

Finished == {k \in 1..Len(futures) : futures[k].state = "FINISHED"}

\* Variant of lines 79-80 that does not fail the run on "needs formatting".
FailureCode_mut(check_only, error_msg) ==
    IF check_only /\ error_msg = <<"needs formatting">> THEN 0 ELSE 1

\* lines 78-82: the value returned for a failed result
FailureCode(check_only, error_msg) ==
    IF check_only /\ error_msg = <<"needs formatting">> THEN 1 ELSE 1

\* lines 76-77, success: as_completed yields a finished future whose result is a
\* success; after the last one the loop ends and line 84 is reached.
AsCompletedOk(k) ==
    /\ pc = "as_completed"
    /\ k \in Finished \ consumed
    /\ futures[k].result.success
    /\ consumed' = consumed \cup {k}
    /\ IF consumed' = 1..Len(files)
       THEN rv' = <<0>> /\ pc' = "shutdown"
       ELSE UNCHANGED <<rv, pc>>
    /\ UNCHANGED late
    /\ UNCHANGED <<inputVars, findVars, qmlformat_path, files, futures, ret, exc>>

\* lines 76-82, failure: return 1 from inside the with block
AsCompletedFail(k) ==
    /\ pc = "as_completed"
    /\ k \in Finished \ consumed
    /\ ~futures[k].result.success
    /\ consumed' = consumed \cup {k}
    /\ rv' = <<FailureCode(args.check, futures[k].result.error_msg)>>
    /\ late' = (1..Len(futures)) \ Finished
    /\ pc' = "shutdown"
    /\ UNCHANGED <<inputVars, findVars, qmlformat_path, files, futures, ret, exc>>

\* Variant that leaves the with block without waiting (shutdown(wait=False)).
Shutdown_mut ==
    /\ pc = "shutdown"
    /\ ret' = rv
    /\ pc' = "done"
    /\ UNCHANGED <<inputVars, findVars, qmlformat_path, files, poolVars, exc>>

\* Leaving the with block: executor.shutdown(wait=True) joins the workers, which
\* drain the queue first; then the decided value is returned.
Shutdown ==
    /\ pc = "shutdown"
    /\ Finished = 1..Len(futures)
    /\ ret' = rv
    /\ pc' = "done"
    /\ UNCHANGED <<inputVars, findVars, qmlformat_path, files, poolVars, exc>>

----------------------------------------------------------------------------
(* main *)

\* Variant of lines 98-99 that tests "is not None" instead of truthiness.
Truthy_mut(p) == p # << >>

\* truthiness of an Optional[str]
Truthy(p) == p # << >> /\ p[1] # << >>

\* line 98, --qmlformat-path given
MainGivenPath ==
    /\ pc = "main"
    /\ Truthy(args.qmlformat_path)
    /\ qmlformat_path' = args.qmlformat_path
    /\ pc' = "main_check"
    /\ UNCHANGED <<inputVars, findVars, files, poolVars, ret, exc>>

\* line 98, args.qmlformat_path or find_qmlformat(): the call
MainCallFind ==
    /\ pc = "main"
    /\ ~Truthy(args.qmlformat_path)
    /\ pc' = "find"
    /\ UNCHANGED <<inputVars, findVars, qmlformat_path, files, poolVars, ret, exc>>

\* line 98: find_qmlformat returns to main; its frame is gone
MainFindReturn ==
    /\ entry = "main"
    /\ pc = "find_return"
    /\ qmlformat_path' = find_ret
    /\ pc' = "main_check"
    /\ i' = 1
    /\ result' = NoLookup
    /\ spawned' = << >>
    /\ find_ret' = << >>
    /\ UNCHANGED <<inputVars, files, poolVars, ret, exc>>

\* Variant of line 100 that returns 0.
MainNoFormatter_mut ==
    /\ pc = "main_check"
    /\ ~Truthy(qmlformat_path)
    /\ ret' = <<0>>
    /\ pc' = "done"
    /\ UNCHANGED <<inputVars, findVars, qmlformat_path, files, poolVars, exc>>

\* lines 99-100
MainNoFormatter ==
    /\ pc = "main_check"
    /\ ~Truthy(qmlformat_path)
    /\ ret' = <<1>>
    /\ pc' = "done"
    /\ UNCHANGED <<inputVars, findVars, qmlformat_path, files, poolVars, exc>>

\* Variant of line 101 without the exists() filter.
ExistingFiles_mut(names) == names

\* line 101: [Path(filename) for filename in args.filenames if Path(filename).exists()]
ExistingFiles(names) == SelectSeq(names, LAMBDA n : n \in exists)

\* lines 101-103
MainNoFiles ==
    /\ pc = "main_check"
    /\ Truthy(qmlformat_path)
    /\ ExistingFiles(args.filenames) = << >>
    /\ files' = << >>
    /\ ret' = <<0>>
    /\ pc' = "done"
    /\ UNCHANGED <<inputVars, findVars, qmlformat_path, poolVars, exc>>

\* lines 101-113: the call of format_qml_files
MainCallFormat ==
    /\ pc = "main_check"
    /\ Truthy(qmlformat_path)
    /\ ExistingFiles(args.filenames) # << >>
    /\ files' = ExistingFiles(args.filenames)
    /\ pc' = "fqf"
    /\ UNCHANGED <<inputVars, findVars, qmlformat_path, poolVars, ret, exc>>

----------------------------------------------------------------------------
(* Initial states and specifications *)

OptWorkers == {<< >>} \cup {<<n>> : n \in MaxWorkerValues}

InitLocals ==
    /\ i = 1
    /\ result = NoLookup
    /\ spawned = << >>
    /\ find_ret = << >>
    /\ futures = << >>
    /\ consumed = {}
    /\ rv = << >>
    /\ late = {}
    /\ ret = << >>
    /\ exc = ""

NoEnv == [k \in 1..Len(possible_names) |-> [kind |-> "CalledProcessError", stdout |-> << >>]]

\* The environments of the runs of main: nothing on PATH (every lookup exits nonzero,
\* or the lookups print nothing or cannot run), or qmlformat alone on it.
MainEnvs ==
    { NoEnv,
      [NoEnv EXCEPT ![1] = [kind |-> "ok", stdout |-> <<"NL">>],
                    ![2] = [kind |-> "FileNotFoundError", stdout |-> << >>],
                    ![3] = [kind |-> "ok", stdout |-> << >>]],
      [NoEnv EXCEPT ![3] = [kind |-> "ok", stdout |-> <<"/", "a", "NL">>]] }

\* main(argv): --inplace is store_true with default True, so args.inplace is True
InitMain ==
    /\ entry = "main"
    /\ args \in [filenames : SeqsUpTo(Names, MaxFiles),
                 qmlformat_path : {<< >>, << << >> >>, <<SomePath>>},
                 use_spaces : BOOLEAN, check : BOOLEAN, inplace : {TRUE},
                 tab_size : TabSizes, max_workers : OptWorkers]
    /\ exists \in SUBSET Names
    /\ platform = "linux"
    /\ which_env \in MainEnvs
    /\ Truthy(args.qmlformat_path) => which_env = NoEnv
    /\ pc = "main"
    /\ qmlformat_path = << >>
    /\ files = << >>
    /\ InitLocals

\* format_qml_files(files, qmlformat_path, ...) called directly
InitFqf ==
    /\ entry = "format_qml_files"
    /\ args \in [filenames : SeqsUpTo(Names, MaxFiles),
                 qmlformat_path : {<<SomePath>>},
                 use_spaces : BOOLEAN, check : BOOLEAN, inplace : BOOLEAN,
                 tab_size : TabSizes, max_workers : OptWorkers]
    /\ exists = Names
    /\ platform = "linux"
    /\ which_env = NoEnv
    /\ pc = "fqf"
    /\ qmlformat_path = args.qmlformat_path
    /\ files = args.filenames
    /\ InitLocals

DefaultArgs ==
    [filenames |-> << >>, qmlformat_path |-> << >>, use_spaces |-> FALSE, check |-> FALSE,
     inplace |-> TRUE, tab_size |-> DefaultTabSize, max_workers |-> << >>]

\* find_qmlformat() called directly, in any environment
InitFind ==
    /\ entry = "find_qmlformat"
    /\ args = DefaultArgs
    /\ exists = {}
    /\ platform \in {"linux", "win32"}
    /\ which_env \in [1..Len(possible_names) -> LookupOutcomes]
    /\ pc = "find"
    /\ qmlformat_path = << >>
    /\ files = << >>
    /\ InitLocals

\* format_single_file(file_path, qmlformat_path, ...) called directly
InitSingle ==
    /\ entry = "format_single_file"
    /\ args \in [filenames : {<<n>> : n \in Names},
                 qmlformat_path : {<<SomePath>>},
                 use_spaces : BOOLEAN, check : BOOLEAN, inplace : BOOLEAN,
                 tab_size : TabSizes, max_workers : {<< >>}]
    /\ exists = Names
    /\ platform = "linux"
    /\ which_env = NoEnv
    /\ pc = "fsf"
    /\ qmlformat_path = args.qmlformat_path
    /\ files = args.filenames
    /\ InitLocals

Init == InitMain \/ InitFqf

Next ==
    \/ MainGivenPath
    \/ MainCallFind
    \/ FindLookup
    \/ FindNone
    \/ MainFindReturn
    \/ MainNoFormatter
    \/ MainNoFiles
    \/ MainCallFormat
    \/ FqfEmpty
    \/ FqfPoolError
    \/ FqfPool
    \/ Submit
    \/ \E k \in 1..MaxFiles + 1 : WorkerStart(k)
    \/ \E k \in 1..MaxFiles + 1 : WorkerFinish(k)
    \/ \E k \in 1..MaxFiles + 1 : AsCompletedOk(k)
    \/ \E k \in 1..MaxFiles + 1 : AsCompletedFail(k)
    \/ Shutdown

Spec == Init /\ [][Next]_vars

NextFind == FindLookup \/ FindNone

SpecFind == InitFind /\ [][NextFind]_vars

NextSingle == FsfCall

SpecSingle == InitSingle /\ [][NextSingle]_vars

----------------------------------------------------------------------------
(* Properties *)

Terminal == pc \in {"done", "raised"}

ExitedZero(k) == futures[k].proc.kind = "exit" /\ futures[k].proc.returncode = 0

ExitedOne(k) == futures[k].proc.kind = "exit" /\ futures[k].proc.returncode = 1

Failed(k) == futures[k].state = "FINISHED" /\ ~ExitedZero(k)

IsBlank(s) == \A j \in 1..Len(s) : s[j] \in Whitespace

\* Candidate k is on PATH: its lookup exits 0 and prints something
Resolves(k) == which_env[k].kind = "ok" /\ ~IsBlank(which_env[k].stdout)

Candidates == 1..4

FormatterAvailable ==
    \/ args.qmlformat_path # << >> /\ Len(args.qmlformat_path[1]) > 0
    \/ \E k \in Candidates : Resolves(k)

Occurrences(n) == Cardinality({k \in 1..Len(args.filenames) : args.filenames[k] = n})

RECURSIVE SumRuns(_, _)
SumRuns(n, k) ==
    IF k = 0 THEN 0
    ELSE SumRuns(n, k - 1) + (IF futures[k].file = n THEN futures[k].runs ELSE 0)

\* How many times the formatter was started on path n
Starts(n) == SumRuns(n, Len(futures))

\* C1: once format_qml_files has been entered with a non-empty list, the run ends
\* with a returned value in {0, 1}, which is 1 exactly when some invocation failed.
C1_ReturnsOrOfFailures ==
    (Terminal /\ files # << >>) =>
        /\ ret \in {<<0>>, <<1>>}
        /\ ret = <<1>> <=> \E k \in 1..Len(futures) : Failed(k)

\* The part of C1 that the code does satisfy: with max_workers None or positive, the
\* value returned on a non-empty list is 1 exactly when some invocation failed.
ReturnsOrOfFailuresIfValidWorkers ==
    (Terminal /\ files # << >> /\ ValidWorkers) =>
        /\ pc = "done"
        /\ ret \in {<<0>>, <<1>>}
        /\ ret = <<1>> <=> \E k \in 1..Len(futures) : Failed(k)

\* C2 as stated: main returns 0 only when every invocation succeeded and no file was
\* changed by the run, and returns 1 whenever an invocation failed or a file was
\* rewritten.
C2_ZeroOnlyIfNothingChanged ==
    (entry = "main" /\ pc = "done") =>
        /\ ret = <<0>> =>
               \A k \in 1..Len(futures) : ExitedZero(k) /\ ~futures[k].proc.rewrote
        /\ (\E k \in 1..Len(futures) : Failed(k) \/ futures[k].proc.rewrote) => ret = <<1>>

\* C2 amended: a run of main that returns, returns 0 exactly when a formatter path
\* was available and every started invocation exited 0, whether or not the formatter
\* rewrote the file, and returns 1 otherwise; a run that does not return raised
\* ValueError for max_workers <= 0 before any invocation.
C2_ZeroIffAllExitZero ==
    (entry = "main" /\ Terminal) =>
        /\ pc = "done" =>
               /\ ret \in {<<0>>, <<1>>}
               /\ ret = <<0>> <=>
                      /\ FormatterAvailable
                      /\ \A k \in 1..Len(futures) : ExitedZero(k)
        /\ pc = "raised" =>
               /\ ret = << >>
               /\ args.max_workers # << >> /\ args.max_workers[1] <= 0
               /\ futures = << >>

\* An in-place run in which the formatter rewrote a file and main returned 0
C2_Witness ==
    /\ entry = "main"
    /\ pc = "done"
    /\ ret = <<0>>
    /\ ~args.check
    /\ \E k \in 1..Len(futures) : futures[k].proc.rewrote

EmptyListRun ==
    /\ Terminal
    /\ entry \in {"main", "format_qml_files"}
    /\ args.filenames = << >>

\* C3 as stated: with an empty list of filenames main returns 0 whatever the flags
\* and whatever the discovery finds, and format_qml_files returns 0 without starting
\* an invocation.
C3_EmptyListReturnsZero ==
    EmptyListRun => pc = "done" /\ ret = <<0>> /\ futures = << >>

\* C3 amended: with an empty list of filenames main returns 0 when a formatter path
\* is available (given, or found by the discovery) and 1 when none is, for every
\* flag combination; format_qml_files with an empty list returns 0; no invocation is
\* started in either.
C3_EmptyListZeroIfFormatter ==
    EmptyListRun =>
        /\ pc = "done"
        /\ futures = << >>
        /\ ret = IF entry = "format_qml_files" \/ FormatterAvailable THEN <<0>> ELSE <<1>>

\* main returned 0 on an empty list, the formatter found by discovery, --check and
\* --max-workers 0 given
C3_Witness ==
    /\ EmptyListRun
    /\ entry = "main"
    /\ args.qmlformat_path = << >>
    /\ args.check
    /\ args.max_workers = <<0>>
    /\ ret = <<0>>

\* C4 as stated: in every run of main the formatter is never started on a missing
\* path; when main returns it has been started exactly once per listed occurrence of
\* an existing path, and main returns 0 when no listed path exists.
C4_ExistingOnceMissingNever ==
    entry = "main" =>
        /\ \A n \in Names \ exists : Starts(n) = 0
        /\ pc = "done" => \A n \in exists : Starts(n) = Occurrences(n)
        /\ (pc = "done" /\ \A n \in exists : Occurrences(n) = 0) => ret = <<0>>

\* C4 amended: the formatter is never started on a missing path and never more than
\* once per listed occurrence; when main returns with a formatter path available it
\* has been started exactly once per listed occurrence of an existing path, and main
\* returns 0 if no listed path exists; with no formatter path available main returns
\* 1 and with max_workers <= 0 it raises, in both cases without starting anything.
C4_ExistingOnceIfFormatter ==
    entry = "main" =>
        /\ \A n \in Names \ exists : Starts(n) = 0
        /\ \A k \in 1..Len(futures) : futures[k].runs <= 1
        /\ \A n \in Names : Starts(n) <= Occurrences(n)
        /\ (pc = "done" /\ FormatterAvailable) =>
               /\ \A n \in exists : Starts(n) = Occurrences(n)
               /\ (\A n \in exists : Occurrences(n) = 0) => ret = <<0>>
        /\ (pc = "done" /\ ~FormatterAvailable) => futures = << >> /\ ret = <<1>>
        /\ pc = "raised" => futures = << >>

\* main returned after a list naming a missing path and an existing one
C4_Witness ==
    /\ entry = "main"
    /\ pc = "done"
    /\ \E n \in Names \ exists : Occurrences(n) > 0
    /\ \E m \in exists : Starts(m) = 1

NothingOnPath ==
    /\ entry = "main"
    /\ args.qmlformat_path = << >>
    /\ \A k \in Candidates : ~Resolves(k)

\* C5: when no --qmlformat-path is given and no candidate resolves on PATH, main
\* never raises, never starts the formatter, and the value it returns is 1.
C5_NotFoundReturnsOne ==
    NothingOnPath =>
        /\ exc = ""
        /\ futures = << >>
        /\ pc \in {"main", "find", "find_return", "main_check", "done"}
        /\ pc = "done" => ret = <<1>>
        /\ pc # "done" => ret = << >> /\ ENABLED Next

\* main returned 1 with nothing on PATH although both listed files exist
C5_Witness ==
    /\ NothingOnPath
    /\ pc = "done"
    /\ ret = <<1>>
    /\ Len(args.filenames) = 2
    /\ \A k \in 1..Len(args.filenames) : args.filenames[k] \in exists

\* The first candidate, in the fixed order, that is on PATH (0 if none)
FirstResolving ==
    IF \E k \in Candidates : Resolves(k)
    THEN CHOOSE k \in Candidates : Resolves(k) /\ \A j \in 1..(k - 1) : ~Resolves(j)
    ELSE 0

\* The text before the first newline
RawFirstLine(s) ==
    LET nl == {j \in 1..Len(s) : s[j] = "NL"}
    IN  IF nl = {} THEN s
        ELSE SubSeq(s, 1, (CHOOSE j \in nl : \A m \in nl : j <= m) - 1)

\* C6: find_qmlformat looks the candidates up in the order pyside6-qmlformat,
\* pyside6-qmlformat.exe, qmlformat, qmlformat.exe, one lookup each, skips every
\* candidate whose lookup fails or prints nothing, returns the first line of the
\* output of the first candidate that resolves, returns None exactly when none
\* resolves, and spawns no lookup after the candidate it returns.
C6_FirstResolvingCandidate ==
    /\ possible_names = <<"pyside6-qmlformat", "pyside6-qmlformat.exe", "qmlformat", "qmlformat.exe">>
    /\ Len(spawned) <= 4
    /\ \A j \in 1..Len(spawned) :
           spawned[j] = <<IF platform = "win32" THEN "where" ELSE "which", possible_names[j]>>
    /\ FirstResolving # 0 => Len(spawned) <= FirstResolving
    /\ pc = "find_return" =>
           IF FirstResolving # 0
           THEN /\ find_ret = <<RawFirstLine(which_env[FirstResolving].stdout)>>
                /\ Len(spawned) = FirstResolving
           ELSE /\ find_ret = << >>
                /\ Len(spawned) = 4

\* find_qmlformat returned the third candidate after a lookup that printed nothing
\* and one that could not run, leaving the fourth, also on PATH, alone
C6_Witness ==
    /\ entry = "find_qmlformat"
    /\ pc = "find_return"
    /\ which_env[1] = [kind |-> "ok", stdout |-> <<"NL">>]
    /\ which_env[2].kind = "FileNotFoundError"
    /\ which_env[3] = [kind |-> "ok", stdout |-> <<"/", "a", "NL", "/", "b", "NL">>]
    /\ Resolves(4)
    /\ find_ret = << <<"/", "a">> >>
    /\ Len(spawned) = 3

\* C7: with --check every formatter command carries --check and not --inplace, so
\* the formatter rewrites no file; a check invocation that exits 0 gives a successful
\* result; and main returns 1 if some check invocation exited 1.
C7_CheckOnlyNeverWrites ==
    args.check =>
        /\ \A k \in 1..Len(futures) :
               futures[k].runs > 0 =>
                   /\ HasOpt(futures[k].cmd, "--check")
                   /\ ~HasOpt(futures[k].cmd, "--inplace")
                   /\ ~futures[k].proc.rewrote
                   /\ (futures[k].state = "FINISHED" /\ ExitedZero(k)) =>
                          futures[k].result = [file |-> futures[k].file, success |-> TRUE,
                                               error_msg |-> << >>]
        /\ (entry = "main" /\ Terminal /\ \E k \in 1..Len(futures) : ExitedOne(k)) =>
               pc = "done" /\ ret = <<1>>

\* main --check returned 1 after one file passed the check and one needed formatting
C7_Witness ==
    /\ entry = "main"
    /\ args.check
    /\ pc = "done"
    /\ ret = <<1>>
    /\ Len(futures) = 2
    /\ ExitedZero(1) /\ futures[1].result.success
    /\ ExitedOne(2)

\* C8: every submitted invocation is started exactly once and never again, and
\* format_qml_files does not return before every file of the list has been submitted,
\* started once and run to completion, also when the result was decided earlier.
C8_AllRunToCompletion ==
    /\ Len(futures) <= Len(files)
    /\ \A k \in 1..Len(futures) :
           /\ futures[k].file = files[k]
           /\ futures[k].runs = IF futures[k].state = "PENDING" THEN 0 ELSE 1
    /\ pc = "shutdown" => Len(futures) = Len(files)
    /\ (ret # << >> /\ files # << >>) =>
           /\ Len(futures) = Len(files)
           /\ \A k \in 1..Len(futures) : futures[k].state = "FINISHED" /\ futures[k].runs = 1

\* format_qml_files returned 1, decided while another invocation had not finished
C8_Witness ==
    /\ pc = "done"
    /\ ret = <<1>>
    /\ late # {}
    /\ \A k \in 1..Len(futures) : futures[k].state = "FINISHED"

SingleCallDone == entry = "format_single_file" /\ pc = "done"

\* C9 as stated: format_single_file never raises; the result is (path, true, None)
\* exactly when the formatter exits 0; the message is "needs formatting" if and only
\* if check-only mode is on and the exit status is 1; every other failure carries the
\* stderr text or the exception text.
C9_NeedsFormattingIffCheckExitOne ==
    SingleCallDone =>
        LET f == futures[1]
        IN  /\ exc = ""
            /\ f.result.file = f.file
            /\ f.result.success <=> ExitedZero(1)
            /\ f.result.success => f.result.error_msg = << >>
            /\ f.result.error_msg = <<"needs formatting">> <=> (args.check /\ ExitedOne(1))
            /\ (~f.result.success /\ ~(args.check /\ ExitedOne(1))) =>
                   f.result.error_msg \in {<<f.proc.stderr>>, <<ExcText(f.proc)>>}

\* C9 amended: as stated, except that the message is "needs formatting" when
\* check-only mode is on and the exit status is 1, and otherwise only when the
\* formatter failed and itself wrote exactly that text to stderr: every other
\* failure carries the stderr text if there is any, else the exception text.
C9_NeedsFormattingOrStderr ==
    SingleCallDone =>
        LET f == futures[1]
        IN  /\ exc = ""
            /\ f.result.file = f.file
            /\ f.result.success <=> ExitedZero(1)
            /\ f.result.success => f.result.error_msg = << >>
            /\ f.result.error_msg = <<"needs formatting">> <=>
                   \/ args.check /\ ExitedOne(1)
                   \/ /\ f.proc.kind = "exit"
                      /\ f.proc.returncode # 0
                      /\ f.proc.stderr = "needs formatting"
            /\ (~f.result.success /\ ~(args.check /\ ExitedOne(1))) =>
                   f.result.error_msg =
                       <<IF f.proc.kind = "exit" /\ f.proc.stderr # ""
                         THEN f.proc.stderr ELSE ExcText(f.proc)>>

\* A check-only call whose formatter exited 1 with other text on stderr
C9_Witness ==
    /\ SingleCallDone
    /\ args.check
    /\ ExitedOne(1)
    /\ futures[1].proc.stderr = "syntax error"
    /\ futures[1].result = [file |-> futures[1].file, success |-> FALSE,
                            error_msg |-> <<"needs formatting">>]

\* C10: in a run of main with more than one worker no two invocations in progress at
\* the same time operate on the same path.
C10_NoTwoRunningOnOnePath ==
    (entry = "main" /\ PoolSize > 1) =>
        \A j \in Running : \A k \in Running :
            j # k => futures[j].file # futures[k].file

====
